---- MODULE Spec2Model ----
(***************************************************************************)
(* AVL tree of src/avl_tree_visualizer.py (classes TreeNode and AVLTree).  *)
(* The node objects live in a heap of cells addressed by identifiers; the  *)
(* recursive methods are operators that thread the heap through the calls  *)
(* and report whether the call returned or raised (AttributeError on a     *)
(* dereference of None).                                                   *)
(***************************************************************************)
EXTENDS Integers, Sequences, FiniteSets, TLC

\* ---- bounds ------------------------------------------------------------
MaxNodes == 7        \* nodes alive at the same time
MaxKey == 7          \* keys of the distinct-key runs are 1..MaxKey
MaxAnyKey == 1       \* keys of the arbitrary-key runs are -1..MaxAnyKey
MaxAnyNodes == 5     \* nodes alive at the same time in the arbitrary-key runs
MaxCells == 12       \* cells of the heap: the smallest AVL tree of height 5
MaxDeletes == 3      \* delete calls that follow the build of that tree

Ids == 1..MaxCells
Keys == 1..MaxKey
AnyKeys == (0 - 1)..MaxAnyKey

\* ---- TreeNode -----------------------------------------------------------
Null == 0

\* a cell that holds no object (never allocated, or garbage collected)
FreeCell == [data |-> 0, left |-> Null, right |-> Null, height |-> 0]

EmptyHeap == [i \in Ids |-> FreeCell]

Allocated(h) == {i \in Ids : h[i].height # 0}

\* result of a recursive call: the heap as mutated, the returned reference,
\* and whether the call returned (TRUE) or raised (FALSE)
\* log lists, oldest first, what the call did so far: a rotation as
\* <<side, z.data>>, and the balance factor computed at a node of the unwind
\* as <<"balance", node.data, factor, keys of left child, keys of right child>>
\* (the key of a child as a set, empty when the child is absent)
Ret(h, r, log) == [h |-> h, ret |-> r, ok |-> TRUE, log |-> log]
Raise(h, r, log) == [h |-> h, ret |-> r, ok |-> FALSE, log |-> log]

\* TreeNode(data): a fresh leaf of height 1 without children
TreeNode(h, d) ==
    LET n == CHOOSE i \in Ids : /\ h[i].height = 0
                                /\ \A j \in Ids : h[j].height = 0 => i <= j
    IN Ret([h EXCEPT ![n] = [data |-> d, left |-> Null, right |-> Null,
                             height |-> 1]], n, <<>>)

\* ---- heights and balance ------------------------------------------------
Max(a, b) == IF a >= b THEN a ELSE b

GetHeight(h, r) == IF r = Null THEN 0 ELSE h[r].height

\* _get_balance subtracting the left height from itself
GetBalanceLeftTwice(h, r) ==
    IF r = Null THEN 0
    ELSE GetHeight(h, h[r].left) - GetHeight(h, h[r].left)

GetBalance(h, r) ==
    IF r = Null THEN 0
    ELSE GetHeight(h, h[r].left) - GetHeight(h, h[r].right)

ChildKey(h, c) == IF c = Null THEN {} ELSE {h[c].data}

\* balance_factor = self._get_balance(root), as the unwind sees it at r
Observation(h, r) ==
    <<"balance", h[r].data, GetBalance(h, r),
      ChildKey(h, h[r].left), ChildKey(h, h[r].right)>>

\* root.height = 1 + max(height(root.left), height(root.right))
UpdateHeight(h, r) ==
    [h EXCEPT ![r].height = 1 + Max(GetHeight(h, h[r].left),
                                    GetHeight(h, h[r].right))]

\* ---- rotations ----------------------------------------------------------
\* a left rotation that hands back z instead of the promoted child
LeftRotateReturnsOldRoot(h, z, log) ==
    LET y == h[z].right
    IN IF y = Null THEN Raise(h, z, log)
       ELSE LET T2 == h[y].left
                h1 == [h EXCEPT ![y].left = z, ![z].right = T2]
                h2 == UpdateHeight(h1, z)
                h3 == UpdateHeight(h2, y)
            IN Ret(h3, z, Append(log, <<"left", h[z].data>>))

LeftRotate(h, z, log) ==
    LET y == h[z].right
    IN IF y = Null THEN Raise(h, z, log)
       ELSE LET T2 == h[y].left
                h1 == [h EXCEPT ![y].left = z, ![z].right = T2]
                h2 == UpdateHeight(h1, z)
                h3 == UpdateHeight(h2, y)
            IN Ret(h3, y, Append(log, <<"left", h[z].data>>))

\* RightRotate with the two height updates in the wrong order (y before z)
RightRotateStaleHeight(h, z, log) ==
    LET y == h[z].left
    IN IF y = Null THEN Raise(h, z, log)
       ELSE LET T3 == h[y].right
                h1 == [h EXCEPT ![y].right = z, ![z].left = T3]
                h2 == UpdateHeight(h1, y)
                h3 == UpdateHeight(h2, z)
            IN Ret(h3, y, Append(log, <<"right", h[z].data>>))

RightRotate(h, z, log) ==
    LET y == h[z].left
    IN IF y = Null THEN Raise(h, z, log)
       ELSE LET T3 == h[y].right
                h1 == [h EXCEPT ![y].right = z, ![z].left = T3]
                h2 == UpdateHeight(h1, z)
                h3 == UpdateHeight(h2, y)
            IN Ret(h3, y, Append(log, <<"right", h[z].data>>))

\* ---- search -------------------------------------------------------------
\* SearchRecursive descending to the wrong side
RECURSIVE SearchRecursiveWrongSide(_, _, _)
SearchRecursiveWrongSide(h, r, d) ==
    IF r = Null THEN FALSE
    ELSE IF h[r].data = d THEN TRUE
    ELSE IF d > h[r].data THEN SearchRecursiveWrongSide(h, h[r].left, d)
    ELSE SearchRecursiveWrongSide(h, h[r].right, d)

RECURSIVE SearchRecursive(_, _, _)
SearchRecursive(h, r, d) ==
    IF r = Null THEN FALSE
    ELSE IF h[r].data = d THEN TRUE
    ELSE IF d < h[r].data THEN SearchRecursive(h, h[r].left, d)
    ELSE SearchRecursive(h, h[r].right, d)

\* ---- insert -------------------------------------------------------------
\* the unwind step of _insert_recursive at node r, children already linked
\* InsertRebalance without the Right Left case
InsertRebalanceNoRightLeft(h, r, d, log) ==
    LET h1 == UpdateHeight(h, r)
        balance_factor == GetBalance(h1, r)
        log1 == Append(log, Observation(h1, r))
    IN IF balance_factor > 1 /\ d < h1[h1[r].left].data
       THEN RightRotate(h1, r, log1)
       ELSE IF balance_factor < -1 /\ d > h1[h1[r].right].data
       THEN LeftRotate(h1, r, log1)
       ELSE IF balance_factor > 1 /\ d > h1[h1[r].left].data
       THEN LET c == LeftRotate(h1, h1[r].left, log1)
            IN IF ~c.ok THEN Raise(c.h, r, c.log)
               ELSE RightRotate([c.h EXCEPT ![r].left = c.ret], r, c.log)
       ELSE Ret(h1, r, log1)

\* InsertRebalance whose Right Right case waits for a balance below -2
InsertRebalanceLateRightRight(h, r, d, log) ==
    LET h1 == UpdateHeight(h, r)
        balance_factor == GetBalance(h1, r)
        log1 == Append(log, Observation(h1, r))
    IN IF balance_factor > 1 /\ d < h1[h1[r].left].data
       THEN RightRotate(h1, r, log1)
       ELSE IF balance_factor < -2 /\ d > h1[h1[r].right].data
       THEN LeftRotate(h1, r, log1)
       ELSE IF balance_factor > 1 /\ d > h1[h1[r].left].data
       THEN LET c == LeftRotate(h1, h1[r].left, log1)
            IN IF ~c.ok THEN Raise(c.h, r, c.log)
               ELSE RightRotate([c.h EXCEPT ![r].left = c.ret], r, c.log)
       ELSE IF balance_factor < -1 /\ d < h1[h1[r].right].data
       THEN LET c == RightRotate(h1, h1[r].right, log1)
            IN IF ~c.ok THEN Raise(c.h, r, c.log)
               ELSE LeftRotate([c.h EXCEPT ![r].right = c.ret], r, c.log)
       ELSE Ret(h1, r, log1)

\* InsertRebalance whose Left Right case forgets the rotation at the left child
InsertRebalanceSingleForLeftRight(h, r, d, log) ==
    LET h1 == UpdateHeight(h, r)
        balance_factor == GetBalance(h1, r)
        log1 == Append(log, Observation(h1, r))
    IN IF balance_factor > 1 /\ d < h1[h1[r].left].data
       THEN RightRotate(h1, r, log1)
       ELSE IF balance_factor < -1 /\ d > h1[h1[r].right].data
       THEN LeftRotate(h1, r, log1)
       ELSE IF balance_factor > 1 /\ d > h1[h1[r].left].data
       THEN RightRotate(h1, r, log1)
       ELSE IF balance_factor < -1 /\ d < h1[h1[r].right].data
       THEN LET c == RightRotate(h1, h1[r].right, log1)
            IN IF ~c.ok THEN Raise(c.h, r, c.log)
               ELSE LeftRotate([c.h EXCEPT ![r].right = c.ret], r, c.log)
       ELSE Ret(h1, r, log1)

InsertRebalance(h, r, d, log) ==
    LET h1 == UpdateHeight(h, r)
        balance_factor == GetBalance(h1, r)
        log1 == Append(log, Observation(h1, r))
    IN IF balance_factor > 1 /\ d < h1[h1[r].left].data
       THEN RightRotate(h1, r, log1)
       ELSE IF balance_factor < -1 /\ d > h1[h1[r].right].data
       THEN LeftRotate(h1, r, log1)
       ELSE IF balance_factor > 1 /\ d > h1[h1[r].left].data
       THEN LET c == LeftRotate(h1, h1[r].left, log1)
            IN IF ~c.ok THEN Raise(c.h, r, c.log)
               ELSE RightRotate([c.h EXCEPT ![r].left = c.ret], r, c.log)
       ELSE IF balance_factor < -1 /\ d < h1[h1[r].right].data
       THEN LET c == RightRotate(h1, h1[r].right, log1)
            IN IF ~c.ok THEN Raise(c.h, r, c.log)
               ELSE LeftRotate([c.h EXCEPT ![r].right = c.ret], r, c.log)
       ELSE Ret(h1, r, log1)

RECURSIVE InsertRecursive(_, _, _)
InsertRecursive(h, r, d) ==
    IF r = Null THEN TreeNode(h, d)
    ELSE IF d < h[r].data
    THEN LET c == InsertRecursive(h, h[r].left, d)
         IN IF ~c.ok THEN Raise(c.h, r, c.log)
            ELSE InsertRebalance([c.h EXCEPT ![r].left = c.ret], r, d, c.log)
    ELSE LET c == InsertRecursive(h, h[r].right, d)
         IN IF ~c.ok THEN Raise(c.h, r, c.log)
            ELSE InsertRebalance([c.h EXCEPT ![r].right = c.ret], r, d, c.log)

\* ---- delete -------------------------------------------------------------
\* _get_min_value_node that forgets to descend to the left
GetMinValueNodeNoDescent(h, r) == r

\* _get_min_value_node that descends to the right
RECURSIVE GetMinValueNodeGoesRight(_, _)
GetMinValueNodeGoesRight(h, r) ==
    IF r = Null \/ h[r].right = Null THEN r
    ELSE GetMinValueNodeGoesRight(h, h[r].right)

RECURSIVE GetMinValueNode(_, _)
GetMinValueNode(h, r) ==
    IF r = Null \/ h[r].left = Null THEN r
    ELSE GetMinValueNode(h, h[r].left)

\* the removed node is referenced by nobody once its parent is re-linked
Release(h, r) == [h EXCEPT ![r] = FreeCell]

\* what delete notes when it unlinks a node with at most one child: the key
\* of the node and the keys of its children
Removal(h, r) ==
    <<"remove", h[r].data, ChildKey(h, h[r].left), ChildKey(h, h[r].right)>>

\* the unwind step of _delete_recursive at node r, children already linked
\* DeleteRebalance that rotates as soon as a node leans (> 0 for > 1, < 0 for < -1)
DeleteRebalanceEager(h, r, log) ==
    LET h1 == UpdateHeight(h, r)
        balance_factor == GetBalance(h1, r)
        log1 == Append(log, Observation(h1, r))
    IN IF balance_factor > 0 /\ GetBalance(h1, h1[r].left) >= 0
       THEN RightRotate(h1, r, log1)
       ELSE IF balance_factor > 0 /\ GetBalance(h1, h1[r].left) < 0
       THEN LET c == LeftRotate(h1, h1[r].left, log1)
            IN IF ~c.ok THEN Raise(c.h, r, c.log)
               ELSE RightRotate([c.h EXCEPT ![r].left = c.ret], r, c.log)
       ELSE IF balance_factor < 0 /\ GetBalance(h1, h1[r].right) <= 0
       THEN LeftRotate(h1, r, log1)
       ELSE IF balance_factor < 0 /\ GetBalance(h1, h1[r].right) > 0
       THEN LET c == RightRotate(h1, h1[r].right, log1)
            IN IF ~c.ok THEN Raise(c.h, r, c.log)
               ELSE LeftRotate([c.h EXCEPT ![r].right = c.ret], r, c.log)
       ELSE Ret(h1, r, log1)

\* the rebalancing of delete with an early exit: once the call has rotated,
\* the ancestors above only have their height recomputed
DeleteRebalanceOnce(h, r, log) ==
    LET h1 == UpdateHeight(h, r)
        balance_factor == GetBalance(h1, r)
        log1 == Append(log, Observation(h1, r))
    IN IF \E i \in DOMAIN log : log[i][1] \in {"left", "right"}
       THEN Ret(h1, r, log1)
       ELSE IF balance_factor > 1 /\ GetBalance(h1, h1[r].left) >= 0
       THEN RightRotate(h1, r, log1)
       ELSE IF balance_factor > 1 /\ GetBalance(h1, h1[r].left) < 0
       THEN LET c == LeftRotate(h1, h1[r].left, log1)
            IN IF ~c.ok THEN Raise(c.h, r, c.log)
               ELSE RightRotate([c.h EXCEPT ![r].left = c.ret], r, c.log)
       ELSE IF balance_factor < -1 /\ GetBalance(h1, h1[r].right) <= 0
       THEN LeftRotate(h1, r, log1)
       ELSE IF balance_factor < -1 /\ GetBalance(h1, h1[r].right) > 0
       THEN LET c == RightRotate(h1, h1[r].right, log1)
            IN IF ~c.ok THEN Raise(c.h, r, c.log)
               ELSE LeftRotate([c.h EXCEPT ![r].right = c.ret], r, c.log)
       ELSE Ret(h1, r, log1)

DeleteRebalance(h, r, log) ==
    LET h1 == UpdateHeight(h, r)
        balance_factor == GetBalance(h1, r)
        log1 == Append(log, Observation(h1, r))
    IN IF balance_factor > 1 /\ GetBalance(h1, h1[r].left) >= 0
       THEN RightRotate(h1, r, log1)
       ELSE IF balance_factor > 1 /\ GetBalance(h1, h1[r].left) < 0
       THEN LET c == LeftRotate(h1, h1[r].left, log1)
            IN IF ~c.ok THEN Raise(c.h, r, c.log)
               ELSE RightRotate([c.h EXCEPT ![r].left = c.ret], r, c.log)
       ELSE IF balance_factor < -1 /\ GetBalance(h1, h1[r].right) <= 0
       THEN LeftRotate(h1, r, log1)
       ELSE IF balance_factor < -1 /\ GetBalance(h1, h1[r].right) > 0
       THEN LET c == RightRotate(h1, h1[r].right, log1)
            IN IF ~c.ok THEN Raise(c.h, r, c.log)
               ELSE LeftRotate([c.h EXCEPT ![r].right = c.ret], r, c.log)
       ELSE Ret(h1, r, log1)

\* _delete_recursive that copies the successor's key up and leaves the
\* successor's node in place
RECURSIVE DeleteRecursiveKeepsSuccessor(_, _, _)
DeleteRecursiveKeepsSuccessor(h, r, d) ==
    IF r = Null THEN Ret(h, Null, <<>>)
    ELSE IF d < h[r].data
    THEN LET c == DeleteRecursiveKeepsSuccessor(h, h[r].left, d)
         IN IF ~c.ok THEN Raise(c.h, r, c.log)
            ELSE DeleteRebalance([c.h EXCEPT ![r].left = c.ret], r, c.log)
    ELSE IF d > h[r].data
    THEN LET c == DeleteRecursiveKeepsSuccessor(h, h[r].right, d)
         IN IF ~c.ok THEN Raise(c.h, r, c.log)
            ELSE DeleteRebalance([c.h EXCEPT ![r].right = c.ret], r, c.log)
    ELSE IF h[r].left = Null THEN Ret(Release(h, r), h[r].right, <<>>)
    ELSE IF h[r].right = Null THEN Ret(Release(h, r), h[r].left, <<>>)
    ELSE LET temp == GetMinValueNode(h, h[r].right)
             h1 == [h EXCEPT ![r].data = h[temp].data]
         IN DeleteRebalance(h1, r, <<>>)

\* a delete that forgets to store what the recursive call on the left returns:
\* the link to an unlinked left child stays
RECURSIVE DeleteRecursiveNoRelink(_, _, _)
DeleteRecursiveNoRelink(h, r, d) ==
    IF r = Null THEN Ret(h, Null, <<>>)
    ELSE IF d < h[r].data
    THEN LET c == DeleteRecursiveNoRelink(h, h[r].left, d)
         IN IF ~c.ok THEN Raise(c.h, r, c.log)
            ELSE DeleteRebalance(c.h, r, c.log)
    ELSE IF d > h[r].data
    THEN LET c == DeleteRecursiveNoRelink(h, h[r].right, d)
         IN IF ~c.ok THEN Raise(c.h, r, c.log)
            ELSE DeleteRebalance([c.h EXCEPT ![r].right = c.ret], r, c.log)
    ELSE IF h[r].left = Null
    THEN Ret(Release(h, r), h[r].right, <<Removal(h, r)>>)
    ELSE IF h[r].right = Null
    THEN Ret(Release(h, r), h[r].left, <<Removal(h, r)>>)
    ELSE LET temp == GetMinValueNode(h, h[r].right)
             h1 == [h EXCEPT ![r].data = h[temp].data]
             c == DeleteRecursiveNoRelink(h1, h1[r].right, h1[temp].data)
             log1 == <<(<<"successor", h[r].data, h[temp].data>>)>> \o c.log
         IN IF ~c.ok THEN Raise(c.h, r, log1)
            ELSE DeleteRebalance([c.h EXCEPT ![r].right = c.ret], r, log1)

RECURSIVE DeleteRecursive(_, _, _)
DeleteRecursive(h, r, d) ==
    IF r = Null THEN Ret(h, Null, <<>>)
    ELSE IF d < h[r].data
    THEN LET c == DeleteRecursive(h, h[r].left, d)
         IN IF ~c.ok THEN Raise(c.h, r, c.log)
            ELSE DeleteRebalance([c.h EXCEPT ![r].left = c.ret], r, c.log)
    ELSE IF d > h[r].data
    THEN LET c == DeleteRecursive(h, h[r].right, d)
         IN IF ~c.ok THEN Raise(c.h, r, c.log)
            ELSE DeleteRebalance([c.h EXCEPT ![r].right = c.ret], r, c.log)
    ELSE IF h[r].left = Null
    THEN Ret(Release(h, r), h[r].right, <<Removal(h, r)>>)
    ELSE IF h[r].right = Null
    THEN Ret(Release(h, r), h[r].left, <<Removal(h, r)>>)
    ELSE LET temp == GetMinValueNode(h, h[r].right)
             h1 == [h EXCEPT ![r].data = h[temp].data]
             c == DeleteRecursive(h1, h1[r].right, h1[temp].data)
             log1 == <<(<<"successor", h[r].data, h[temp].data>>)>> \o c.log
         IN IF ~c.ok THEN Raise(c.h, r, log1)
            ELSE DeleteRebalance([c.h EXCEPT ![r].right = c.ret], r, log1)

\* ---- level-order traversal ------------------------------------------------
\* while len(levels) <= level: levels.append([])
ExtendLevels(levels, level) ==
    IF Len(levels) <= level
    THEN levels \o [i \in 1..(level + 1 - Len(levels)) |-> <<>>]
    ELSE levels

\* levels is indexed from 1 here: levels[level + 1] is the code's levels[level]
\* _collect_nodes_by_level visiting the right subtree before the left one
RECURSIVE CollectNodesByLevelRightFirst(_, _, _, _)
CollectNodesByLevelRightFirst(h, node, level, levels) ==
    IF node = Null THEN levels
    ELSE LET l0 == ExtendLevels(levels, level)
             l1 == [l0 EXCEPT ![level + 1] = Append(@, node)]
             l2 == CollectNodesByLevelRightFirst(h, h[node].right, level + 1, l1)
         IN CollectNodesByLevelRightFirst(h, h[node].left, level + 1, l2)

RECURSIVE CollectNodesByLevel(_, _, _, _)
CollectNodesByLevel(h, node, level, levels) ==
    IF node = Null THEN levels
    ELSE LET l0 == ExtendLevels(levels, level)
             l1 == [l0 EXCEPT ![level + 1] = Append(@, node)]
             l2 == CollectNodesByLevel(h, h[node].left, level + 1, l1)
         IN CollectNodesByLevel(h, h[node].right, level + 1, l2)

GetNodesByLevel(h, r) ==
    IF r = Null THEN <<>> ELSE CollectNodesByLevel(h, r, 0, <<>>)

\* ---- what a tree is, read off the heap ------------------------------------
RECURSIVE NodesOf(_, _)
NodesOf(h, r) ==
    IF r = Null THEN {}
    ELSE {r} \cup NodesOf(h, h[r].left) \cup NodesOf(h, h[r].right)

KeysOf(h, r) == {h[n].data : n \in NodesOf(h, r)}

RECURSIVE TrueHeight(_, _)
TrueHeight(h, r) ==
    IF r = Null THEN 0
    ELSE 1 + Max(TrueHeight(h, h[r].left), TrueHeight(h, h[r].right))

\* Object identities are not observable by the program (a reference is only
\* ever tested against None), so two heaps that differ by a renaming of the
\* cells are the same program state.  Renumber names the objects reachable
\* from r by their preorder position and drops the unreachable ones, which
\* is what reference counting does to them.
RECURSIVE Preorder(_, _)
Preorder(h, r) ==
    IF r = Null THEN <<>>
    ELSE <<r>> \o Preorder(h, h[r].left) \o Preorder(h, h[r].right)

Renumber(h, r) ==
    LET seq == Preorder(h, r)
        idx(n) == IF n = Null THEN Null
                  ELSE CHOOSE i \in 1..Len(seq) : seq[i] = n
    IN [i \in Ids |->
          IF i <= Len(seq)
          THEN [data |-> h[seq[i]].data, left |-> idx(h[seq[i]].left),
                right |-> idx(h[seq[i]].right), height |-> h[seq[i]].height]
          ELSE FreeCell]

RootOf(r) == IF r = Null THEN Null ELSE 1

\* ---- state --------------------------------------------------------------
VARIABLES heap, root, ref, last, phase, S, hist

vars == <<heap, root, ref, last, phase, S, hist>>

\* the last public call: its name and argument, whether the key was stored
\* when it was made (for search: the value returned), whether it raised, the
\* rotations it performed, its whole log, and for the traversal the levels it
\* returned
NoCall == [op |-> "none", key |-> 0, present |-> FALSE, raised |-> FALSE,
           rots |-> <<>>, log |-> <<>>, levels |-> <<>>]

IsRotation(e) == e[1] \in {"left", "right"}
IsBalance(e) == e[1] = "balance"

Rotations(log) == SelectSeq(log, IsRotation)
Balances(log) == SelectSeq(log, IsBalance)

Init ==
    /\ heap = EmptyHeap
    /\ root = Null
    /\ ref = {}
    /\ last = NoCall
    /\ phase = "free"
    /\ S = {}
    /\ hist = <<>>

\* search that walks self.root down the tree instead of a local reference
SearchCallMovesRoot(k) ==
    /\ last' = [op |-> "search", key |-> k,
                present |-> SearchRecursive(heap, root, k), raised |-> FALSE,
                rots |-> <<>>, log |-> <<>>, levels |-> <<>>]
    /\ root' = IF root = Null \/ heap[root].data = k THEN root
               ELSE IF k < heap[root].data THEN heap[root].left
               ELSE heap[root].right
    /\ UNCHANGED <<heap, ref>>

\* AVLTree.search(data)
SearchCall(k) ==
    /\ last' = [op |-> "search", key |-> k,
                present |-> SearchRecursive(heap, root, k), raised |-> FALSE,
                rots |-> <<>>, log |-> <<>>, levels |-> <<>>]
    /\ UNCHANGED <<heap, root, ref>>

\* AVLTree.insert(data): self.root is assigned only when the call returns
InsertCall(k) ==
    LET c == InsertRecursive(heap, root, k)
        r == IF c.ok THEN c.ret ELSE root
    IN /\ heap' = Renumber(c.h, r)
       /\ root' = RootOf(r)
       /\ ref' = IF c.ok THEN ref \cup {k} ELSE ref
       /\ last' = [op |-> "insert", key |-> k,
                   present |-> k \in KeysOf(heap, root), raised |-> ~c.ok,
                   rots |-> Rotations(c.log), log |-> c.log,
                   levels |-> <<>>]

\* AVLTree.delete(data)
DeleteCall(k) ==
    LET c == DeleteRecursive(heap, root, k)
        r == IF c.ok THEN c.ret ELSE root
    IN /\ heap' = Renumber(c.h, r)
       /\ root' = RootOf(r)
       /\ ref' = IF c.ok THEN ref \ {k} ELSE ref
       /\ last' = [op |-> "delete", key |-> k,
                   present |-> k \in KeysOf(heap, root), raised |-> ~c.ok,
                   rots |-> Rotations(c.log), log |-> c.log,
                   levels |-> <<>>]

\* AVLTree.get_nodes_by_level()
LevelsCall ==
    /\ last' = [op |-> "levels", key |-> 0, present |-> FALSE,
                raised |-> FALSE, rots |-> <<>>, log |-> <<>>,
                levels |-> GetNodesByLevel(heap, root)]
    /\ UNCHANGED <<heap, root, ref>>

\* ---- runs with arbitrary integer keys ------------------------------------
AnyInsert ==
    \E k \in AnyKeys :
        /\ Cardinality(Allocated(heap)) < MaxAnyNodes
        /\ Cardinality(Allocated(heap)) < MaxNodes
        /\ InsertCall(k)
        /\ UNCHANGED <<phase, S, hist>>

AnyDelete == \E k \in AnyKeys : DeleteCall(k) /\ UNCHANGED <<phase, S, hist>>

AnySearch == \E k \in AnyKeys : SearchCall(k) /\ UNCHANGED <<phase, S, hist>>

NextAny == AnyInsert \/ AnyDelete \/ AnySearch

SpecAny == Init /\ [][NextAny]_vars

\* ---- runs in which insert is only given a key that is not stored ---------
Insert ==
    \E k \in Keys :
        /\ k \notin KeysOf(heap, root)
        /\ Cardinality(Allocated(heap)) < MaxNodes
        /\ InsertCall(k)
        /\ UNCHANGED <<phase, S, hist>>

Delete == \E k \in Keys : DeleteCall(k) /\ UNCHANGED <<phase, S, hist>>

Search == \E k \in Keys : SearchCall(k) /\ UNCHANGED <<phase, S, hist>>

Levels == LevelsCall /\ UNCHANGED <<phase, S, hist>>

Next == Insert \/ Delete \/ Search \/ Levels

Spec == Init /\ [][Next]_vars

\* ---- runs over the keys 5, 10, 15, ... that remember the calls made ---------
ScenarioKeys == {5 * k : k \in Keys}

Ins(k) == <<"insert", k>>
Del(k) == <<"delete", k>>

Scenario1 == <<Ins(10), Ins(20), Ins(30)>>
Scenario2 == <<Ins(30), Ins(20), Ins(10)>>
Scenario3 == <<Ins(30), Ins(10), Ins(20)>>
Scenario4Build ==
    <<Ins(20), Ins(10), Ins(30), Ins(5), Ins(15), Ins(25), Ins(35)>>
Scenario4 == Append(Scenario4Build, Del(20))
Scenario5 == Append(Scenario4Build, <<"levels", 0>>)

Scenarios == {Scenario1, Scenario2, Scenario3, Scenario4, Scenario5}

IsPrefix(s, t) == Len(s) <= Len(t) /\ SubSeq(t, 1, Len(s)) = s

\* hist is the sequence of calls made since the tree was created, each with
\* the rotations it performed, for as long as it is the beginning of one of the
\* scenarios; after that it is Untracked
Untracked == <<[call |-> <<"other", 0>>, rots |-> <<>>]>>

CallsOf(hs) == [i \in 1..Len(hs) |-> hs[i].call]

RotationsOf(hs) == [i \in 1..Len(hs) |-> hs[i].rots]

Track(call, rots) ==
    LET hs == Append(hist, [call |-> call, rots |-> rots])
    IN IF hist # Untracked /\ \E sc \in Scenarios : IsPrefix(CallsOf(hs), sc)
       THEN hs ELSE Untracked

ScenarioInsert ==
    \E k \in ScenarioKeys :
        /\ k \notin KeysOf(heap, root)
        /\ Cardinality(Allocated(heap)) < MaxNodes
        /\ InsertCall(k)
        /\ hist' = Track(Ins(k), last'.rots)
        /\ UNCHANGED <<phase, S>>

ScenarioDelete ==
    \E k \in ScenarioKeys :
        /\ DeleteCall(k)
        /\ hist' = Track(Del(k), last'.rots)
        /\ UNCHANGED <<phase, S>>

ScenarioLevels ==
    /\ LevelsCall
    /\ hist' = Track(<<"levels", 0>>, <<>>)
    /\ UNCHANGED <<phase, S>>

NextScenario == ScenarioInsert \/ ScenarioDelete \/ ScenarioLevels

SpecScenario == Init /\ [][NextScenario]_vars

\* ---- TreeVisualizer: the input handler and the clear button -------------------
\* The text of the entry is a sequence of characters.
DigitChars == <<"0", "1", "2", "3", "4", "5", "6", "7", "8", "9">>

IsDigit(c) == \E d \in 1..10 : DigitChars[d] = c

DigitValue(c) == (CHOOSE d \in 1..10 : DigitChars[d] = c) - 1

\* str.strip(): drop the blanks at both ends
RECURSIVE StripLeft(_)
StripLeft(t) ==
    IF t # <<>> /\ Head(t) = " " THEN StripLeft(Tail(t)) ELSE t

RECURSIVE StripRight(_)
StripRight(t) ==
    IF t # <<>> /\ t[Len(t)] = " " THEN StripRight(SubSeq(t, 1, Len(t) - 1))
    ELSE t

Strip(t) == StripRight(StripLeft(t))

RECURSIVE DigitsValue(_, _)
DigitsValue(t, acc) ==
    IF t = <<>> THEN acc
    ELSE DigitsValue(Tail(t), 10 * acc + DigitValue(Head(t)))

\* an int() that drops the sign of the text
ParseIntDropsSign(t) ==
    LET signed == Head(t) \in {"-", "+"}
        digits == IF signed THEN Tail(t) ELSE t
    IN IF digits # <<>> /\ \A i \in 1..Len(digits) : IsDigit(digits[i])
       THEN [ok |-> TRUE, value |-> DigitsValue(digits, 0)]
       ELSE [ok |-> FALSE, value |-> 0]

\* int(text) for a stripped, non-empty text over blanks, signs, digits and
\* letters: an optional sign followed by digits only, else ValueError
ParseInt(t) ==
    LET signed == Head(t) \in {"-", "+"}
        digits == IF signed THEN Tail(t) ELSE t
    IN IF digits # <<>> /\ \A i \in 1..Len(digits) : IsDigit(digits[i])
       THEN [ok |-> TRUE,
             value |-> IF Head(t) = "-" THEN 0 - DigitsValue(digits, 0)
                       ELSE DigitsValue(digits, 0)]
       ELSE [ok |-> FALSE, value |-> 0]

Ignored(why) == [op |-> why, key |-> 0, present |-> FALSE, raised |-> FALSE,
                 rots |-> <<>>, log |-> <<>>, levels |-> <<>>]

\* handle_input without the membership test: every positive integer is inserted
HandleInputAlwaysInserts(text) ==
    LET user_input == Strip(text)
        num == ParseInt(user_input)
    IN IF user_input = <<>>
       THEN last' = Ignored("empty") /\ UNCHANGED <<heap, root, ref, phase>>
       ELSE IF ~num.ok
       THEN last' = Ignored("invalid") /\ UNCHANGED <<heap, root, ref, phase>>
       ELSE IF num.value <= 0
       THEN /\ last' = Ignored("destroy")
            /\ phase' = "destroyed"
            /\ UNCHANGED <<heap, root, ref>>
       ELSE /\ Cardinality(Allocated(heap)) < MaxNodes
            /\ InsertCall(num.value)
            /\ phase' = phase

\* TreeVisualizer.handle_input: the window, the status bar, the explanation
\* popup and the canvas are left out; an exception of the tree is caught
HandleInput(text) ==
    LET user_input == Strip(text)
        num == ParseInt(user_input)
    IN IF user_input = <<>>
       THEN last' = Ignored("empty") /\ UNCHANGED <<heap, root, ref, phase>>
       ELSE IF ~num.ok
       THEN last' = Ignored("invalid") /\ UNCHANGED <<heap, root, ref, phase>>
       ELSE IF num.value <= 0
       THEN /\ last' = Ignored("destroy")
            /\ phase' = "destroyed"
            /\ UNCHANGED <<heap, root, ref>>
       ELSE IF SearchRecursive(heap, root, num.value)
       THEN DeleteCall(num.value) /\ phase' = phase
       ELSE /\ Cardinality(Allocated(heap)) < MaxNodes
            /\ InsertCall(num.value)
            /\ phase' = phase

\* TreeVisualizer._clear_tree: self.tree = AVLTree()
ClearTree ==
    /\ heap' = EmptyHeap
    /\ root' = Null
    /\ ref' = {}
    /\ last' = Ignored("clear")

\* what the user may type: the decimal text of an integer
RECURSIVE DecimalOf(_)
DecimalOf(n) ==
    IF n < 0 THEN <<"-">> \o DecimalOf(0 - n)
    ELSE IF n < 10 THEN <<DigitChars[n + 1]>>
    ELSE Append(DecimalOf(n \div 10), DigitChars[(n % 10) + 1])

Padded(t) == <<" ">> \o t \o <<" ">>

\* the texts a positive integer n is submitted as
TextsOf(n) == {DecimalOf(n), Padded(DecimalOf(n))}

OtherTexts ==
    {<<>>, <<" ">>, <<"x">>, <<"1", "x">>, <<"-">>, <<"1", " ", "2">>,
     <<"+", "2">>, <<"0">>, <<"-", "1">>, <<" ", "-", "2">>}

Inputs == UNION {TextsOf(n) : n \in Keys} \cup OtherTexts

Submit ==
    \E text \in Inputs :
        /\ phase # "destroyed"
        /\ HandleInput(text)
        /\ UNCHANGED <<S, hist>>

Clear ==
    /\ phase # "destroyed"
    /\ ClearTree
    /\ UNCHANGED <<phase, S, hist>>

NextHandler == Submit \/ Clear

SpecHandler == Init /\ [][NextHandler]_vars

\* ---- a tree of height 5: the smallest one has twelve nodes ------------------
\* the keys 1..12 in the level order of the smallest AVL tree of height 5, so
\* that no insert of the build rotates
CascadeBuild == <<8, 5, 11, 3, 7, 10, 12, 2, 4, 6, 9, 1>>

InitCascade ==
    /\ heap = EmptyHeap
    /\ root = Null
    /\ ref = {}
    /\ last = NoCall
    /\ phase = "build"
    /\ S = {}
    /\ hist = <<>>

CascadeInsert ==
    LET n == Cardinality(Allocated(heap))
    IN /\ phase = "build"
       /\ n < Len(CascadeBuild) /\ n < MaxCells
       /\ InsertCall(CascadeBuild[n + 1])
       /\ phase' = IF n + 1 = Len(CascadeBuild) THEN "shrink" ELSE "build"
       /\ UNCHANGED <<S, hist>>

\* S holds the keys deleted so far
CascadeDelete ==
    \E k \in KeysOf(heap, root) :
        /\ phase = "shrink"
        /\ Cardinality(S) < MaxDeletes
        /\ DeleteCall(k)
        /\ S' = S \cup {k}
        /\ UNCHANGED <<phase, hist>>

CascadeSearch ==
    \E k \in 1..Len(CascadeBuild) :
        /\ SearchCall(k)
        /\ UNCHANGED <<phase, S, hist>>

NextCascade == CascadeInsert \/ CascadeDelete \/ CascadeSearch

SpecCascade == InitCascade /\ [][NextCascade]_vars

\* ---- one rotation at a node of a tree the calls have built -----------------
\* _left_rotate(z) or _right_rotate(z); as in the callers, the node returned
\* takes the place of z under its parent or as the root
RotateAt(dir, z) ==
    LET c == IF dir = "left" THEN LeftRotate(heap, z, <<>>)
             ELSE RightRotate(heap, z, <<>>)
        parents == {p \in NodesOf(heap, root) :
                       heap[p].left = z \/ heap[p].right = z}
    IN /\ heap' = IF ~c.ok \/ parents = {} THEN c.h
                  ELSE LET p == CHOOSE q \in parents : TRUE
                       IN IF c.h[p].left = z
                          THEN [c.h EXCEPT ![p].left = c.ret]
                          ELSE [c.h EXCEPT ![p].right = c.ret]
       /\ root' = IF c.ok /\ root = z THEN c.ret ELSE root
       /\ ref' = ref
       /\ last' = [op |-> dir, key |-> heap[z].data, present |-> TRUE,
                   raised |-> ~c.ok, rots |-> Rotations(c.log),
                   log |-> c.log, levels |-> <<>>]

Rotate ==
    \E dir \in {"left", "right"} :
        \E z \in NodesOf(heap, root) :
            /\ phase = "free"
            /\ RotateAt(dir, z)
            /\ phase' = "rotated"
            /\ UNCHANGED <<S, hist>>

RotateInsert == phase = "free" /\ Insert

RotateDelete == phase = "free" /\ Delete

NextRotate == RotateInsert \/ RotateDelete \/ Rotate

SpecRotate == Init /\ [][NextRotate]_vars

\* ---- round trips: insert a set S of distinct keys, then delete them all ----
InitRoundTrip ==
    /\ heap = EmptyHeap
    /\ root = Null
    /\ ref = {}
    /\ last = NoCall
    /\ phase = "inserting"
    /\ S = {}
    /\ hist = <<>>

RoundTripInsert ==
    \E k \in Keys :
        /\ phase = "inserting"
        /\ k \notin S
        /\ Cardinality(Allocated(heap)) < MaxNodes
        /\ InsertCall(k)
        /\ S' = S \cup {k}
        /\ phase' = phase
        /\ hist' = hist

\* ref holds the keys of S that have not been deleted yet
RoundTripDelete ==
    \E k \in ref :
        /\ phase \in {"inserting", "deleting"}
        /\ DeleteCall(k)
        /\ phase' = "deleting"
        /\ S' = S
        /\ hist' = hist

NextRoundTrip == RoundTripInsert \/ RoundTripDelete

SpecRoundTrip == InitRoundTrip /\ [][NextRoundTrip]_vars

\* ---- properties ----------------------------------------------------------
Abs(x) == IF x < 0 THEN 0 - x ELSE x

Reachable == NodesOf(heap, root)

\* C1: after every insert (of a key that is not stored) and every delete,
\* every node has |true height(left) - true height(right)| <= 1, an absent
\* subtree having height 0.
AVLBalanced ==
    \A n \in Reachable :
        Abs(TrueHeight(heap, heap[n].left) - TrueHeight(heap, heap[n].right)) <= 1

\* a delete that had to rotate has just returned
AVLBalancedWitness ==
    /\ last.op = "delete" /\ ~last.raised /\ Len(last.rots) >= 1
    /\ Cardinality(Reachable) >= 4

\* C2: after every insert (of a key that is not stored) and every delete,
\* every key in a node's left subtree is strictly smaller than the node's key
\* and every key in its right subtree strictly greater.
BSTProperty ==
    \A n \in Reachable :
        /\ \A k \in KeysOf(heap, heap[n].left) : k < heap[n].data
        /\ \A k \in KeysOf(heap, heap[n].right) : k > heap[n].data

\* a stored key has just been deleted from a node with two children: the
\* successor key copied into that node separates the keys as the deleted one did
BSTPropertyWitness ==
    /\ last.op = "delete" /\ last.present /\ ~last.raised
    /\ Cardinality(Reachable) >= 5
    /\ \E n \in Reachable :
          /\ heap[n].left # Null /\ heap[n].right # Null
          /\ \A k \in KeysOf(heap, heap[n].left) : k < last.key
          /\ \A k \in KeysOf(heap, heap[n].right) \cup {heap[n].data} : k > last.key

\* C3: after every insert or delete, with any integer keys, the height field
\* of every node equals 1 + max(true height(left), true height(right)).
HeightsExact ==
    \A n \in Reachable :
        heap[n].height = 1 + Max(TrueHeight(heap, heap[n].left),
                                 TrueHeight(heap, heap[n].right))

\* a call that performed a double rotation has just returned, in a tree that
\* stores some key twice
HeightsExactWitness ==
    /\ last.op \in {"insert", "delete"} /\ ~last.raised
    /\ Len(last.rots) = 2
    /\ Cardinality(Reachable) > Cardinality(KeysOf(heap, root))

\* C4: in the runs where insert is only given keys that are not stored,
\* search(k) is true iff k is in the reference set, iff a node holds k.
SearchIsMembership ==
    \A k \in Keys :
        /\ SearchRecursive(heap, root, k) <=> k \in ref
        /\ k \in ref <=> \E n \in Reachable : heap[n].data = k

\* a search has just found a key in a tree of five keys or more from which
\* some key was deleted before
SearchIsMembershipWitness ==
    /\ last.op = "search" /\ last.present
    /\ Cardinality(ref) >= 5
    /\ \E k \in Keys : k \notin ref /\ k < last.key

\* C5: insert(k) called when search(k) is true leaves the nodes, their keys,
\* links and height fields, and the root as they were.
InsertPresentIsNoOp ==
    [][\A k \in AnyKeys :
          (InsertCall(k) /\ SearchRecursive(heap, root, k))
              => UNCHANGED <<heap, root>>]_vars

\* C6: once delete(k) has returned search(k) is false and stays false until
\* insert(k) is called; once insert(k) has returned search(k) is true and
\* stays true until delete(k) is called.
SearchFollowsLastCall ==
    [][\A k \in AnyKeys :
          /\ (DeleteCall(k) /\ ~last'.raised) => ~SearchRecursive(heap', root', k)
          /\ (InsertCall(k) /\ ~last'.raised) => SearchRecursive(heap', root', k)
          /\ (~SearchRecursive(heap, root, k) /\ ~InsertCall(k))
                 => ~SearchRecursive(heap', root', k)
          /\ (SearchRecursive(heap, root, k) /\ ~DeleteCall(k))
                 => SearchRecursive(heap', root', k)]_vars

\* C7: no search, insert or delete call raises, whatever the integer keys.
NeverRaises == ~last.raised

\* C8: in the runs where insert is only given keys that are not stored,
\* delete(k) of a key that is not stored leaves the root, every link, every
\* key and every height field as they were.
DeleteAbsentIsNoOp ==
    [][\A k \in Keys :
          (DeleteCall(k) /\ k \notin KeysOf(heap, root))
              => UNCHANGED <<heap, root>>]_vars

\* a key that is not stored has just been deleted from a tree of height 3 or
\* more in which some node leans
DeleteAbsentIsNoOpWitness ==
    /\ last.op = "delete" /\ ~last.present /\ ~last.raised
    /\ last.rots = <<>>
    /\ GetHeight(heap, root) >= 3
    /\ \E n \in Reachable : GetBalance(heap, n) # 0

\* C9: when all keys of a set S of distinct keys have been inserted, in any
\* order, and then all deleted, in any order, the tree is empty (root absent).
RoundTripToEmpty ==
    (phase = "deleting" /\ ref = {}) => (root = Null /\ Allocated(heap) = {})

\* the last key of a set of six keys or more has just been deleted
RoundTripToEmptyWitness ==
    /\ phase = "deleting" /\ ref = {} /\ Cardinality(S) >= 6
    /\ last.op = "delete" /\ last.present /\ root = Null

\* Natural numbers beyond the machine integers, as sequences of digits in
\* base 10000, least significant digit first.
RECURSIVE BigTimes(_, _, _)
BigTimes(x, m, carry) ==
    IF x = <<>> THEN (IF carry = 0 THEN <<>> ELSE <<carry>>)
    ELSE LET p == Head(x) * m + carry
         IN <<p % 10000>> \o BigTimes(Tail(x), m, p \div 10000)

RECURSIVE BigPower(_, _)
BigPower(b, e) == IF e = 0 THEN <<1>> ELSE BigTimes(BigPower(b, e - 1), b, 0)

RECURSIVE BigLessFrom(_, _, _)
BigLessFrom(x, y, i) ==
    IF i = 0 THEN FALSE
    ELSE IF x[i] # y[i] THEN x[i] < y[i]
    ELSE BigLessFrom(x, y, i - 1)

BigLess(x, y) ==
    IF Len(x) # Len(y) THEN Len(x) < Len(y) ELSE BigLessFrom(x, y, Len(x))

\* hgt <= ceil(1.44 * log2(n + 2)): for an integer hgt this is
\* hgt - 1 < (36/25) * log2(n + 2), that is 2^(25 * (hgt - 1)) < (n + 2)^36,
\* computed as 32^(5 * (hgt - 1)) < ((n + 2)^3)^12.
WithinAVLBound(hgt, n) ==
    hgt = 0 \/ BigLess(BigPower(32, 5 * (hgt - 1)),
                       BigPower((n + 2) * (n + 2) * (n + 2), 12))

\* C10: in the runs where insert is only given keys that are not stored, a
\* tree that stores n keys has a root of height at most ceil(1.44 * log2(n + 2)),
\* the empty tree having height 0.
HeightBound ==
    WithinAVLBound(GetHeight(heap, root), Cardinality(KeysOf(heap, root)))

\* a tree of seven keys and height 4, the tallest a balanced tree of seven
\* keys can be
HeightBoundWitness ==
    /\ Cardinality(KeysOf(heap, root)) = 7
    /\ GetHeight(heap, root) = 4
    /\ last.op \in {"insert", "delete"}

\* ---- the traversal ---------------------------------------------------------
RECURSIVE Inorder(_, _)
Inorder(h, r) ==
    IF r = Null THEN <<>>
    ELSE Inorder(h, h[r].left) \o <<r>> \o Inorder(h, h[r].right)

\* the nodes d links below r
RECURSIVE NodesAtDepth(_, _, _)
NodesAtDepth(h, r, d) ==
    IF r = Null THEN {}
    ELSE IF d = 0 THEN {r}
    ELSE NodesAtDepth(h, h[r].left, d - 1) \cup NodesAtDepth(h, h[r].right, d - 1)

\* the nodes at depth d from left to right
LevelLeftToRight(h, r, d) ==
    LET AtDepth(n) == n \in NodesAtDepth(h, r, d)
    IN SelectSeq(Inorder(h, r), AtDepth)

KeysOfLevels(h, lv) ==
    [d \in 1..Len(lv) |-> [i \in 1..Len(lv[d]) |-> h[lv[d][i]].data]]

\* C11: the traversal of a tree of true height h returns h levels (none for
\* the empty tree); level d holds exactly the nodes at depth d, each once, from
\* left to right, so its keys ascend, and the root is alone at level 0.  After
\* inserting 20,10,30,5,15,25,35 it returns [[20],[10,30],[5,15,25,35]].
LevelsAreDepths ==
    last.op = "levels" =>
        /\ Len(last.levels) = TrueHeight(heap, root)
        /\ \A d \in 1..Len(last.levels) :
              /\ last.levels[d] = LevelLeftToRight(heap, root, d - 1)
              /\ \A i, j \in 1..Len(last.levels[d]) :
                    i < j => heap[last.levels[d][i]].data < heap[last.levels[d][j]].data
        /\ (root # Null => last.levels[1] = <<root>>)
        /\ (CallsOf(hist) = Scenario5 =>
              KeysOfLevels(heap, last.levels)
                  = << <<20>>, <<10, 30>>, <<5, 15, 25, 35>> >>)

\* the traversal has just been made on the tree built from 20,10,30,5,15,25,35
LevelsAreDepthsWitness ==
    /\ last.op = "levels"
    /\ CallsOf(hist) = Scenario5
    /\ Len(last.levels) = 3

RECURSIVE Flatten(_)
Flatten(ss) == IF ss = <<>> THEN <<>> ELSE Head(ss) \o Flatten(Tail(ss))

\* all the rotations of the calls made so far, oldest first
RotationsSoFar == Flatten(RotationsOf(hist))

IsLeaf(n, k) ==
    /\ n # Null /\ heap[n].data = k /\ heap[n].height = 1
    /\ heap[n].left = Null /\ heap[n].right = Null

\* root 20 of height 2 with the leaves 10 and 30 as children
IsTree102030 ==
    /\ root # Null /\ heap[root].data = 20 /\ heap[root].height = 2
    /\ IsLeaf(heap[root].left, 10)
    /\ IsLeaf(heap[root].right, 30)

\* C13: inserting 10, 20, 30 into the empty tree performs exactly one rotation,
\* a left rotation at 10; inserting 30, 20, 10 performs exactly one rotation, a
\* right rotation at 30; both end with root 20 (height 2) over the leaves 10 and
\* 30 (height 1).
SingleRotationScenarios ==
    /\ CallsOf(hist) = Scenario1 =>
          (RotationsSoFar = << <<"left", 10>> >> /\ IsTree102030)
    /\ CallsOf(hist) = Scenario2 =>
          (RotationsSoFar = << <<"right", 30>> >> /\ IsTree102030)

\* 10, 20, 30 have just been inserted in that order
SingleRotationScenariosWitness ==
    /\ CallsOf(hist) = Scenario1
    /\ last.op = "insert" /\ last.key = 30 /\ Len(last.rots) = 1

\* the entry of the log at position i, or <<"end">> past its end
Entry(log, i) == IF i \in 1..Len(log) THEN log[i] ELSE <<"end">>

RightLeftCaseReached ==
    /\ last.op = "insert"
    /\ \E i \in 1..Len(last.log) :
          /\ IsBalance(last.log[i]) /\ last.log[i][3] < -1
          /\ \E x \in last.log[i][5] : last.key < x

\* C15: after inserting 20, 10, 30, 5, 15, 25, 35 into the empty tree,
\* delete(20) makes 25, the in-order successor of 20, the root key, leaves the
\* keys 5, 10, 15, 25, 30, 35, and the tree is still ordered and balanced.
TwoChildDeletionScenario ==
    CallsOf(hist) = Scenario4 =>
        /\ root # Null /\ heap[root].data = 25
        /\ KeysOf(heap, root) = {5, 10, 15, 25, 30, 35}
        /\ Cardinality(Reachable) = 6
        /\ BSTProperty
        /\ AVLBalanced

\* 20 has just been deleted from the tree built from 20,10,30,5,15,25,35
TwoChildDeletionScenarioWitness ==
    /\ CallsOf(hist) = Scenario4
    /\ last.op = "delete" /\ last.key = 20 /\ last.present /\ ~last.raised


\* C16: submitting a positive integer n toggles its membership: a stored n is
\* deleted, an absent n is inserted, so contains(n) is negated and the
\* membership of every other key stays as it was
InputTogglesMembership ==
    [][\A n \in Keys :
          (phase # "destroyed" /\ \E text \in TextsOf(n) : HandleInput(text)) =>
              /\ last'.key = n
              /\ last'.op = IF SearchRecursive(heap, root, n) THEN "delete"
                            ELSE "insert"
              /\ SearchRecursive(heap', root', n) = ~SearchRecursive(heap, root, n)
              /\ \A k \in Keys \ {n} :
                    SearchRecursive(heap', root', k) = SearchRecursive(heap, root, k)]_vars

InputTogglesMembershipWitness ==
    /\ last.op = "delete" /\ last.present /\ ~last.raised
    /\ Cardinality(Reachable) >= 3
    /\ ~SearchRecursive(heap, root, last.key)
    /\ phase # "destroyed"

\* the number of nodes _insert_recursive passes on its way down to the place
\* of d, each of which is an ancestor of the new node
RECURSIVE PathLength(_, _, _)
PathLength(h, r, d) ==
    IF r = Null THEN 0
    ELSE 1 + PathLength(h, IF d < h[r].data THEN h[r].left ELSE h[r].right, d)

Unbalanced(e) == IsBalance(e) /\ Abs(e[3]) > 1

\* at most one ancestor is seen out of balance, and what follows it in the log
\* is one single rotation at that ancestor, or a rotation at the child on the
\* heavy side followed by the opposite rotation at that ancestor
OneRebalancingEvent(log) ==
    LET U == {i \in DOMAIN log : Unbalanced(log[i])}
        R == {i \in DOMAIN log : IsRotation(log[i])}
    IN /\ Cardinality(U) <= 1
       /\ U = {} => R = {}
       /\ \A i \in U :
             /\ R \in {{i + 1}, {i + 1, i + 2}}
             /\ R = {i + 1} => log[i + 1][2] = log[i][2]
             /\ R = {i + 1, i + 2} =>
                   /\ log[i + 1][1] # log[i + 2][1]
                   /\ log[i + 2][2] = log[i][2]
                   /\ {log[i + 1][2]} =
                         IF log[i + 2][1] = "right" THEN log[i][4] ELSE log[i][5]

\* C17: an insert of an absent key recomputes the balance of every ancestor on
\* the insertion path, finds at most one of them with |balance factor| > 1 and
\* performs at most one rebalancing event (a single or a double rotation)
InsertRebalancesOnce ==
    [][(last'.op = "insert" /\ ~last'.present) =>
          /\ ~last'.raised
          /\ Len(Balances(last'.log)) = PathLength(heap, root, last'.key)
          /\ OneRebalancingEvent(last'.log)]_vars

\* an insert that rotated below the root: the ancestors above were checked too
InsertRebalancesOnceWitness ==
    /\ last.op = "insert" /\ ~last.present
    /\ Len(last.rots) = 2
    /\ \E i \in DOMAIN last.log :
          /\ Unbalanced(last.log[i])
          /\ i + 3 <= Len(last.log)

\* C18: a delete call rebalances every ancestor it finds out of balance, also
\* after it has already rotated lower down, and the tree it leaves has
\* |balance factor| <= 1 at every node; one call can rotate at two ancestors
DeleteRebalancesEveryAncestor ==
    last.op = "delete" =>
        /\ ~last.raised
        /\ AVLBalanced
        /\ \A i \in DOMAIN last.log :
              Unbalanced(last.log[i]) =>
                  /\ i < Len(last.log)
                  /\ IsRotation(last.log[i + 1])
                  /\ \/ last.log[i + 1][2] = last.log[i][2]
                     \/ /\ i + 1 < Len(last.log)
                        /\ IsRotation(last.log[i + 2])
                        /\ last.log[i + 2][2] = last.log[i][2]

\* one delete call with rebalancing events at two distinct ancestors
DeleteRebalancesEveryAncestorWitness ==
    /\ last.op = "delete" /\ last.present /\ ~last.raised
    /\ \E i, j \in DOMAIN last.log :
          /\ i < j
          /\ Unbalanced(last.log[i]) /\ Unbalanced(last.log[j])
          /\ last.log[i][2] # last.log[j][2]
    /\ Len(last.rots) >= 2
    /\ AVLBalanced

\* the four rebalancing cases of insert, in the order of the code, for the
\* balance observation e of an ancestor and the inserted key d
CaseHolds(c, e, d) ==
    IF c = 1 THEN e[3] > 1 /\ \E k \in e[4] : d < k
    ELSE IF c = 2 THEN e[3] < 0 - 1 /\ \E k \in e[5] : d > k
    ELSE IF c = 3 THEN e[3] > 1 /\ \E k \in e[4] : d > k
    ELSE e[3] < 0 - 1 /\ \E k \in e[5] : d < k

\* the rotations case c performs at the ancestor with observation e
CaseRotations(c, e) ==
    IF c = 1 THEN <<(<<"right", e[2]>>)>>
    ELSE IF c = 2 THEN <<(<<"left", e[2]>>)>>
    ELSE IF c = 3 THEN <<(<<"left", CHOOSE k \in e[4] : TRUE>>), (<<"right", e[2]>>)>>
    ELSE <<(<<"right", CHOOSE k \in e[5] : TRUE>>), (<<"left", e[2]>>)>>

\* C19: in an insert of an absent key every ancestor found with
\* |balance factor| > 1 satisfies exactly one of the four case conditions, and
\* an ancestor the call returns has had the rotations of that case
InsertCasesExactlyOne ==
    (last.op = "insert" /\ ~last.present) =>
        \A i \in DOMAIN last.log :
            Unbalanced(last.log[i]) =>
                LET e == last.log[i]
                    cases == {c \in 1..4 : CaseHolds(c, e, last.key)}
                IN /\ Cardinality(cases) = 1
                   /\ ~last.raised =>
                         \A c \in cases :
                             LET rs == CaseRotations(c, e)
                             IN /\ i + Len(rs) <= Len(last.log)
                                /\ SubSeq(last.log, i + 1, i + Len(rs)) = rs
                                /\ i + Len(rs) < Len(last.log) =>
                                      IsBalance(last.log[i + Len(rs) + 1])

\* the right-left case below the root
InsertCasesExactlyOneWitness ==
    /\ last.op = "insert" /\ ~last.present /\ ~last.raised
    /\ \E i \in DOMAIN last.log :
          /\ Unbalanced(last.log[i])
          /\ CaseHolds(4, last.log[i], last.key)
          /\ i + 2 < Len(last.log)

KeySeq(h, nodes) == [i \in DOMAIN nodes |-> h[nodes[i]].data]

\* the node that stands where z stood before the step
InPlaceOf(z) ==
    IF root = z THEN root'
    ELSE LET p == CHOOSE q \in Reachable : heap[q].left = z \/ heap[q].right = z
         IN IF heap[p].left = z THEN heap'[p].left ELSE heap'[p].right

\* the subtree of z before the step and the subtree of y after it hold the same
\* nodes in the same in-order sequence, with the same keys
SameInorder(z, y) ==
    /\ Inorder(heap', y) = Inorder(heap, z)
    /\ KeySeq(heap', Inorder(heap', y)) = KeySeq(heap, Inorder(heap, z))
    /\ NodesOf(heap', y) = NodesOf(heap, z)

\* C20: a rotation at z whose child to be promoted exists returns that child
\* with z as its child on the opposite side, and the subtree keeps its nodes
\* and its in-order key sequence
RotationPreservesInorder ==
    [][\A z \in Reachable :
          /\ (phase = "free" /\ heap[z].right # Null /\ RotateAt("left", z)) =>
                /\ InPlaceOf(z) = heap[z].right
                /\ heap'[heap[z].right].left = z
                /\ SameInorder(z, heap[z].right)
          /\ (phase = "free" /\ heap[z].left # Null /\ RotateAt("right", z)) =>
                /\ InPlaceOf(z) = heap[z].left
                /\ heap'[heap[z].left].right = z
                /\ SameInorder(z, heap[z].left)]_vars

\* a left rotation below the root that moved a subtree from y to z
RotationPreservesInorderWitness ==
    /\ phase = "rotated"
    /\ last.op = "left" /\ ~last.raised
    /\ heap[root].data # last.key
    /\ \E z \in Reachable : heap[z].data = last.key /\ heap[z].right # Null

\* the node _delete_recursive stops at for d: the first one on the way down
\* whose key is d
RECURSIVE FindNode(_, _, _)
FindNode(h, r, d) ==
    IF r = Null THEN Null
    ELSE IF d < h[r].data THEN FindNode(h, h[r].left, d)
    ELSE IF d > h[r].data THEN FindNode(h, h[r].right, d)
    ELSE r

IsRemoval(e) == e[1] = "remove"

IsSuccessor(e) == e[1] = "successor"

Removals(log) == SelectSeq(log, IsRemoval)

Successors(log) == SelectSeq(log, IsSuccessor)

MinKey(keys) == CHOOSE k \in keys : \A j \in keys : k <= j

\* C21: a delete that stops at a node with two children copies the smallest
\* key of the right subtree into it and then unlinks exactly one node, which
\* holds that key and has no left child; the two-children case is entered at
\* most once; the call removes one node and the key k
DeleteTwoChildren ==
    [][(last'.op = "delete" /\ FindNode(heap, root, last'.key) # Null) =>
          LET k == last'.key
              n == FindNode(heap, root, k)
              removed == Removals(last'.log)
              copied == Successors(last'.log)
          IN /\ ~last'.raised
             /\ Cardinality(NodesOf(heap', root')) = Cardinality(Reachable) - 1
             /\ KeysOf(heap', root') = KeysOf(heap, root) \ {k}
             /\ Len(removed) = 1
             /\ IF heap[n].left # Null /\ heap[n].right # Null
                THEN LET s == MinKey(KeysOf(heap, heap[n].right))
                     IN /\ copied = <<(<<"successor", k, s>>)>>
                        /\ removed[1][2] = s
                        /\ removed[1][3] = {}
                        /\ \E m \in NodesOf(heap', root') :
                              /\ heap'[m].data = s
                              /\ ChildKey(heap', heap'[m].left) \subseteq
                                    KeysOf(heap, heap[n].left)
                ELSE /\ copied = <<>>
                     /\ removed[1][2] = k]_vars

\* a two-children delete whose successor lies below the right child and has a
\* right child of its own
DeleteTwoChildrenWitness ==
    /\ last.op = "delete" /\ last.present /\ ~last.raised
    /\ Len(Successors(last.log)) = 1
    /\ \E i \in DOMAIN last.log :
          /\ IsRemoval(last.log[i])
          /\ last.log[i][4] # {}

\* C22: every balance factor computed during the unwind of an insert of an
\* absent key or of a delete, after the height of the ancestor is recomputed
\* and before it is rotated, lies in [-2, 2]
BalanceFactorWithinTwo ==
    last.op \in {"insert", "delete"} =>
        \A i \in DOMAIN last.log :
            IsBalance(last.log[i]) => last.log[i][3] \in (0 - 2)..2

\* a delete whose unwind met the factor 2
BalanceFactorWithinTwoWitness ==
    /\ last.op = "delete" /\ last.present
    /\ \E i \in DOMAIN last.log :
          IsBalance(last.log[i]) /\ last.log[i][3] = 2
    /\ Cardinality(Reachable) >= 4

ChildrenOf(h, N) == ({h[n].left : n \in N} \cup {h[n].right : n \in N}) \ {Null}

\* the cells reached from the cells N by following at most steps links
RECURSIVE Reach(_, _, _)
Reach(h, N, steps) ==
    LET more == N \cup ChildrenOf(h, N)
    IN IF steps = 0 \/ more = N THEN N ELSE Reach(h, more, steps - 1)

ReachSet(h, r) == Reach(h, {r} \ {Null}, MaxCells)

\* the links that lead to n from the cells N
ParentLinks(h, N, n) ==
    {<<p, "left">> : p \in {q \in N : h[q].left = n}} \cup
    {<<p, "right">> : p \in {q \in N : h[q].right = n}}

\* the cells reached from r are live nodes that form one tree with root r
IsTree(h, r) ==
    LET N == ReachSet(h, r)
    IN /\ N \subseteq Allocated(h)
       /\ \A n \in N :
             /\ Cardinality(ParentLinks(h, N, n)) = IF n = r THEN 0 ELSE 1
             /\ n \notin Reach(h, ChildrenOf(h, {n}), MaxCells)

\* the object graph an insert or delete of k leaves behind, before the cells
\* are renumbered
AfterCall(op, k) ==
    LET c == IF op = "insert" THEN InsertRecursive(heap, root, k)
             ELSE DeleteRecursive(heap, root, k)
    IN [h |-> c.h, r |-> IF c.ok THEN c.ret ELSE root]

\* C23: after every insert or delete the nodes reachable from the root form a
\* single tree (no parent of the root, one parent link for every other node,
\* no cycle) and no node unlinked by the call is reachable
SingleTree ==
    [][last'.op \in {"insert", "delete"} =>
          \A a \in {AfterCall(last'.op, last'.key)} :
              /\ IsTree(a.h, a.r)
              /\ ReachSet(a.h, a.r) \cap (Allocated(heap) \ Allocated(a.h)) = {}
              /\ IsTree(heap', root')]_vars

\* a delete that unlinked a node and rotated
SingleTreeWitness ==
    /\ last.op = "delete" /\ last.present /\ ~last.raised
    /\ last.rots # <<>>
    /\ Cardinality(Reachable) >= 4
    /\ IsTree(heap, root)

\* the texts that are empty, not a number, or a number that is not positive
RejectedTexts ==
    {<<>>, <<" ">>, <<"x">>, <<"1", "x">>, <<"-">>, <<"1", " ", "2">>,
     <<"0">>, <<"-", "1">>, <<" ", "-", "2">>}

\* insert is only called with an absent key and delete with a stored one; the
\* tree holds no key twice and is a balanced search tree
HandlerTreeValid ==
    /\ last.op = "insert" => ~last.present
    /\ last.op = "delete" => last.present
    /\ ~last.raised
    /\ Cardinality(KeysOf(heap, root)) = Cardinality(Reachable)
    /\ BSTProperty
    /\ AVLBalanced

RejectedInputKeepsTree ==
    \A text \in RejectedTexts :
        (phase # "destroyed" /\ HandleInput(text)) =>
            /\ heap' = heap /\ root' = root
            /\ last'.op \notin {"insert", "delete"}

\* C24: through the input handler and the clear button insert never gets a
\* stored key and delete never an absent one, so the tree stores no key twice
\* and stays a balanced search tree; an empty, non-numeric or non-positive
\* input leaves the tree as it was
HandlerKeepsTreeValid == [][HandlerTreeValid' /\ RejectedInputKeepsTree]_vars

\* a non-positive input submitted to a tree built by inserts and a delete
HandlerKeepsTreeValidWitness ==
    /\ phase = "destroyed" /\ last.op = "destroy"
    /\ Cardinality(Reachable) >= 4
    /\ Cardinality(ref) < MaxKey


====
